---- MODULE Spec2Model ----
(***************************************************************************)
(* Tightlock: the GA4 Measurement Protocol destination                     *)
(* (dags/destinations/ga4mp.py) and the RunResult it reports               *)
(* (dags/utils.py).                                                        *)
(*                                                                         *)
(* Spec: one call of Destination.send_data as a state machine, one step    *)
(* per network call (one iteration of the validation loop, one iteration   *)
(* of the send loop), the network's answer being the input of the step.    *)
(* SpecValidate: the validator (_send_validate_request followed by         *)
(* _parse_validate_result) applied to one answer of the sandbox, over a    *)
(* wide set of answers.                                                    *)
(***************************************************************************)
EXTENDS Integers, Sequences, FiniteSets, TLC

VARIABLES
  init_config,                 \* the config argument of Destination.__init__
  config,                      \* Destination's fields set by __init__
  input_data,                  \* send_data's argument: the batch of events
  dry_run,                     \* send_data's argument
  pc,                          \* position of the call
  i,                           \* index of the validation loop
  valid_events,                \* list of (index, payload)
  invalid_indices_and_errors,  \* list of (index, error_num)
  sent,                        \* how many entries of valid_events the send loop has visited
  response,                    \* what the network answered to the latest sandbox POST
  validated,                   \* how the validation of each event ended, in order
  posted,                      \* (index, how _send_payload ended), in order
  post_response,               \* what the network answered to the latest production POST
  calls,                       \* every request issued, in order
  escaped,                     \* the exception that left send_data, or "none"
  run_result,                  \* what send_data returned
  operands,                    \* the RunResults combined so far, in order
  total,                       \* ((r1 + r2) + r3) + ...
  right_total,                 \* r1 + (r2 + (r3 + ...))
  reversed,                    \* rn + (... + (r2 + r1))
  task,                        \* the AirflowClient method in progress
  status_forcelist,            \* _get_request's argument
  max_retries,                 \* _get_request's argument
  backoff_in_seconds,          \* _get_request's argument
  retries_left,                \* _get_request's local
  client_pc,                   \* position of the _get_request call
  client_response,             \* _get_request's local response
  received,                    \* the responses _get_request received, in order
  gets,                        \* GETs issued by the _get_request call
  sleeps,                      \* the sleeps of the _get_request call, in order
  client_escaped,              \* the exception that left the client's method
  other_steps,                 \* steps taken by another task of the event loop
  list_pc,                     \* position of the list_dag_runs call
  runs,                        \* number of runs the list response holds
  run_logs,                    \* list_dag_runs' run_logs (the RunResult of each)
  artifacts,                   \* the xcom responses list_dag_runs fetched, in order
  http_log,                    \* the methods of the client's requests, in order
  validate_pc,                 \* position of the _validate_target call
  target_result                \* the ValidationResult _validate_target returned

\* The variables of a Destination and its send_data call.
destinationVars ==
  << init_config, config, input_data, dry_run, pc, i, valid_events,
     invalid_indices_and_errors, sent, response, validated, posted,
     post_response, calls, escaped, run_result >>

\* The variables of an AirflowClient call.
targetVars == << validate_pc, target_result >>

clientVars ==
  << task, status_forcelist, max_retries, backoff_in_seconds, retries_left,
     client_pc, client_response, received, gets, sleeps, client_escaped,
     other_steps, list_pc, runs, run_logs, artifacts, http_log, targetVars >>

\* The variables of a sum of RunResults.
sumVars == << operands, total, right_total, reversed >>

vars == << destinationVars, clientVars, sumVars >>

(***************************************************************************)
(* Bounds                                                                  *)
(***************************************************************************)
MaxEvents == 3
MaxOperands == 3
MaxRetries == 3
MaxBackoff == 2
MaxOtherSteps == 1
MaxRuns == 2

(***************************************************************************)
(* Python values                                                           *)
(***************************************************************************)
None == "None"

\* dict.get(key, default)
Get(d, key, default) == IF key \in DOMAIN d THEN d[key] ELSE default

\* needle in haystack, for str
Contains(haystack, needle) ==
  \E k \in 1..(Len(haystack) - Len(needle) + 1) :
     SubSeq(haystack, k, k + Len(needle) - 1) = needle

\* dict(d) with d[key] = value
With(d, key, value) ==
  [k \in DOMAIN d \cup {key} |-> IF k = key THEN value ELSE d[k]]

(***************************************************************************)
(* errors.ErrorNameIDMap: a member of the enumeration, and the member's    *)
(* .value (the bare number behind it, which is not a member).              *)
(***************************************************************************)
Member(name) == << "ErrorNameIDMap", name >>
ValueOf(member) == << "int", member[2] >>

RETRIABLE_GA4_HOOK_ERROR_HTTP_ERROR == Member("RETRIABLE_GA4_HOOK_ERROR_HTTP_ERROR")
NON_RETRIABLE_ERROR_EVENT_NOT_SENT == Member("NON_RETRIABLE_ERROR_EVENT_NOT_SENT")
GA4_HOOK_ERROR_INVALID_VALUES == Member("GA4_HOOK_ERROR_INVALID_VALUES")
RETRIABLE_GA_HOOK_ERROR_HTTP_ERROR == Member("RETRIABLE_GA_HOOK_ERROR_HTTP_ERROR")

\* The table, in its insertion order (immutabledict iterates in that order).
_ERROR_TYPES ==
  << << "client_id", Member("GA4_HOOK_ERROR_VALUE_REQUIRED_CLIENT_ID") >>,
     << "user_id", Member("GA4_HOOK_ERROR_VALUE_INVALID_USER_ID") >>,
     << "timestamp_micros", Member("GA4_HOOK_ERROR_VALUE_INVALID_TIMESTAMP_MICROS") >>,
     << "user_properties", Member("GA4_HOOK_ERROR_VALUE_INVALID_USER_PROPERTIES") >>,
     << "non_personalized_ads", Member("GA4_HOOK_ERROR_VALUE_INVALID_NON_PERSONALIZED_ADS") >>,
     << "events", Member("GA4_HOOK_ERROR_VALUE_INVALID_EVENTS") >>,
     << "events.params", Member("GA4_HOOK_ERROR_VALUE_INVALID_EVENTS_PARAMS") >>,
     << "events.params.items", Member("GA4_HOOK_ERROR_VALUE_INVALID_EVENTS_PARAMS_ITEMS") >> >>

(***************************************************************************)
(* The outcome of a call: it returns, or it raises an exception that       *)
(* carries an error_num.                                                   *)
(***************************************************************************)
Returns == [exc |-> "none", error_num |-> None]
Raises(exc, error_num) == [exc |-> exc, error_num |-> error_num]

\* str(x) of an error_num: the text differs exactly when the values differ.
Str(x) == << "str", x >>

(***************************************************************************)
(* What the network can answer.  A request either fails to connect         *)
(* (requests.ConnectionError) or is answered with a status code and a      *)
(* body; a body is either not JSON or a JSON object (a dict).              *)
(***************************************************************************)
ConnectionError == [kind |-> "ConnectionError"]
Response(status_code, body) ==
  [kind |-> "response", status_code |-> status_code, body |-> body]
NotJson == [json |-> FALSE]
Json(value) == [json |-> TRUE, value |-> value]

\* Diagnostics of the validation API: dicts with or without a fieldPath and
\* a description.
FieldPaths ==
  { _ERROR_TYPES[k][1] : k \in 1..Len(_ERROR_TYPES) }
  \cup { "", "new_field", "event" }

Descriptions ==
  { "",
    "Unknown problem.",
    "Measurement requires a client_id.",
    "Measurement timestamp_micros has timestamp too far in the past.",
    "Both user_properties and user_id are missing.",
    "Set non_personalized_ads together with user_properties.",
    "Event at index: [0] of events has invalid params.",
    "Param [session_id] of events.params has unsupported value.",
    "Item [price] of events.params.items has unsupported value.",
    "Event name [_e] is reserved." }

Messages ==
  { [fieldPath |-> f, description |-> d] : f \in FieldPaths, d \in Descriptions }
  \cup { [fieldPath |-> f] : f \in FieldPaths }
  \cup { [description |-> d] : d \in Descriptions }
  \cup { << >> }

LaterMessages ==
  { [fieldPath |-> "client_id",
     description |-> "Measurement requires a client_id."],
    [fieldPath |-> "events.params.items",
     description |-> "Item [price] of events.params.items has unsupported value."] }

ValidatorBodies ==
  { NotJson,
    Json(<< >>),                                 \* {}: no validationMessages
    Json([validationMessages |-> << >>]) }
  \cup { Json([validationMessages |-> << m >>]) : m \in Messages }
  \cup { Json([validationMessages |-> << m, n >>]) :
           m \in Messages, n \in LaterMessages }

SandboxStatuses == {100, 204, 301, 400, 404, 499, 500, 503}

\* Every answer the validator is applied to.
ValidatorOutcomes ==
  { ConnectionError }
  \cup { Response(s, NotJson) : s \in SandboxStatuses }
  \cup { Response(200, b) : b \in ValidatorBodies }

\* The answers drawn per event of a batch: one of each kind.
SandboxOutcomes ==
  { ConnectionError,
    Response(503, NotJson),
    Response(404, NotJson),
    Response(200, NotJson),
    Response(200, Json(<< >>)),
    Response(200, Json([validationMessages |-> << >>])),
    Response(200, Json([validationMessages |->
      << [fieldPath |-> "client_id",
          description |-> "Measurement requires a client_id."] >>])),
    Response(200, Json([validationMessages |->
      << [fieldPath |-> "new_field", description |-> "Unknown problem."],
         [fieldPath |-> "client_id",
          description |-> "Measurement requires a client_id."] >>])) }

ProductionStatuses == {199, 200, 299, 300, 503}

ProductionOutcomes ==
  { ConnectionError } \cup { Response(s, NotJson) : s \in ProductionStatuses }

(***************************************************************************)
(* Destination                                                             *)
(***************************************************************************)

\* The loop of _parse_validate_result over the table, from entry k on.
RECURSIVE ClassifyFrom(_, _, _)
ClassifyFrom(k, field_path, description) ==
  IF k > Len(_ERROR_TYPES)
  THEN GA4_HOOK_ERROR_INVALID_VALUES
  ELSE IF \/ field_path = _ERROR_TYPES[k][1]
          \/ Contains(description, _ERROR_TYPES[k][1])
       THEN _ERROR_TYPES[k][2]
       ELSE ClassifyFrom(k + 1, field_path, description)

\* A classifier that ignores fieldPath and matches on the description alone
\* (a faulty variant, to show that C9 tells the two apart).
Classify_description_only(field_path, description) ==
  LET hits == { k \in 1..Len(_ERROR_TYPES) :
                  Contains(description, _ERROR_TYPES[k][1]) }
  IN IF hits = {} THEN GA4_HOOK_ERROR_INVALID_VALUES
     ELSE _ERROR_TYPES[CHOOSE k \in hits : \A h \in hits : k <= h][2]

\* The error_num raised for a diagnostic.
Classify(field_path, description) == ClassifyFrom(1, field_path, description)

\* The message of the response that is classified.
ClassifiedMessage(validationMessages) == validationMessages[1]

\* The outcome of _parse_validate_result.  response.json() raises
\* json.JSONDecodeError on a body that is not JSON; a JSON object without
\* the key validationMessages raises KeyError at the subscript.
_parse_validate_result(resp) ==
  IF resp.status_code >= 500
  THEN Raises("DataOutConnectorValueError", RETRIABLE_GA4_HOOK_ERROR_HTTP_ERROR)
  ELSE IF resp.status_code # 200
  THEN Raises("DataOutConnectorValueError", NON_RETRIABLE_ERROR_EVENT_NOT_SENT)
  ELSE IF ~resp.body.json
  THEN Raises("DataOutConnectorValueError",
              ValueOf(RETRIABLE_GA4_HOOK_ERROR_HTTP_ERROR))
  ELSE LET validation_result == resp.body.value IN
    IF "validationMessages" \notin DOMAIN validation_result
    THEN Raises("KeyError", None)
    ELSE IF validation_result["validationMessages"] = <<>>
    THEN Returns
    ELSE LET message == ClassifiedMessage(validation_result["validationMessages"])
             field_path == Get(message, "fieldPath", "")
             description == Get(message, "description", "")
         IN Raises("DataOutConnectorValueError",
                   Classify(field_path, description))

\* The body POSTed to the validation URL.
ValidatingPayload(payload) ==
  With(payload, "validationBehavior", "ENFORCE_RECOMMENDATIONS")

\* _send_validate_request, given the network's answer: the response, or the
\* error raised.
\* The caller's payload after _send_validate_request(payload): the marker
\* is set on dict(payload), a copy, so the caller's dict is as it was.
PayloadAfterValidate_in_place(payload) == ValidatingPayload(payload)

PayloadAfterValidate(payload) == payload

_send_validate_request(net) ==
  IF net.kind = "ConnectionError"
  THEN Raises("DataOutConnectorValueError", RETRIABLE_GA4_HOOK_ERROR_HTTP_ERROR)
  ELSE Returns

\* The try block of _get_valid_and_invalid_events.
ValidateOutcome(net) ==
  IF _send_validate_request(net).exc # "none"
  THEN _send_validate_request(net)
  ELSE _parse_validate_result(net)

\* A faulty variant: only a status >= 400 is a failure.
_send_payload_redirect_ok(net) ==
  IF net.kind = "ConnectionError"
  THEN Raises("DataOutConnectorSendUnsuccessfulError",
              RETRIABLE_GA_HOOK_ERROR_HTTP_ERROR)
  ELSE IF net.status_code < 200 \/ net.status_code >= 400
  THEN Raises("DataOutConnectorSendUnsuccessfulError",
              RETRIABLE_GA_HOOK_ERROR_HTTP_ERROR)
  ELSE Returns

\* _send_payload with debug off, given the network's answer.
_send_payload(net) ==
  IF net.kind = "ConnectionError"
  THEN Raises("DataOutConnectorSendUnsuccessfulError",
              RETRIABLE_GA_HOOK_ERROR_HTTP_ERROR)
  ELSE IF net.status_code < 200 \/ net.status_code >= 300
  THEN Raises("DataOutConnectorSendUnsuccessfulError",
              RETRIABLE_GA_HOOK_ERROR_HTTP_ERROR)
  ELSE Returns

\* _send_payload with debug on: Destination has no attribute log.
_send_payload_debug == Raises("AttributeError", None)

\* The payload built from an event.
BuildPayload(cfg, event) ==
  LET identity ==
        IF cfg.payload_type = "firebase"
        THEN [app_instance_id |-> Get(event, "app_instance_id", "")]
        ELSE [client_id |-> Get(event, "client_id", "")]
      base == identity @@
        [user_id |-> Get(event, "user_id", ""),
         non_personalized_ads |-> cfg.non_personalized_ads,
         events |-> << [name |-> Get(event, "event_name", ""),
                        params |-> [engagement_time_msec |->
                                      Get(event, "engagement_time_msec", ""),
                                    session_id |-> Get(event, "session_id", "")]] >>]
  IN IF cfg.user_properties # None
     THEN With(base, "user_properties", cfg.user_properties)
     ELSE base

\* The k-th event of a batch (k = 0, 1, ...), its fields already strings.
EventRecord(k) ==
  [client_id |-> "c" \o ToString(k), user_id |-> "u" \o ToString(k),
   event_name |-> "purchase", engagement_time_msec |-> "100",
   session_id |-> "s" \o ToString(k)]

\* RunResult(successful_hits, failed_hits, error_messages, dry_run)
RunResult(sh, fh, em, dr) ==
  [successful_hits |-> sh, failed_hits |-> fh, error_messages |-> em,
   dry_run |-> dr]

\* A request on the wire.
Request(url, index, body) == [url |-> url, index |-> index, body |-> body]

\* bool(x), for x a str or None
Truthy(x) == x \notin {None, ""}

\* config.get(key) or default, for a key that holds a bool or a dict when set
GetOr(cfg, key, default) ==
  IF key \in DOMAIN cfg /\ cfg[key] # FALSE THEN cfg[key] ELSE default

\* The config dicts a Destination is constructed from: each key present or
\* not.
Configs ==
  { api @@ ptype @@ mid @@ fid @@ dbg :
      api \in { << >>, [api_secret |-> ""], [api_secret |-> "secret"] },
      ptype \in { << >>, [payload_type |-> "gtag"],
                  [payload_type |-> "firebase"], [payload_type |-> "web"] },
      mid \in { << >>, [measurement_id |-> ""], [measurement_id |-> "G-1"] },
      fid \in { << >>, [firebase_app_id |-> ""], [firebase_app_id |-> "1:2:android:3"] },
      dbg \in { << >>, [debug |-> TRUE] } }

\* The fields __init__ sets before it validates them.
Fields(cfg) ==
  [payload_type |-> Get(cfg, "payload_type", None),
   api_secret |-> Get(cfg, "api_secret", None),
   non_personalized_ads |-> GetOr(cfg, "non_personalized_ads", FALSE),
   user_properties |->
     IF "user_properties" \in DOMAIN cfg THEN cfg["user_properties"] ELSE None,
   debug |-> GetOr(cfg, "debug", FALSE)]
  @@ (IF Get(cfg, "payload_type", None) = "firebase"
      THEN [firebase_app_id |-> Get(cfg, "firebase_app_id", None)]
      ELSE IF Get(cfg, "payload_type", None) = "gtag"
      THEN [measurement_id |-> Get(cfg, "measurement_id", None)]
      ELSE << >>)

\* A faulty variant: the API secret is not checked.
_validate_credentials_no_secret(self) ==
  IF self.payload_type \notin {"firebase", "gtag"}
  THEN Raises("DataOutConnectorValueError", None)
  ELSE IF self.payload_type = "firebase" /\ ~Truthy(self.firebase_app_id)
  THEN Raises("DataOutConnectorValueError", None)
  ELSE IF self.payload_type = "gtag" /\ ~Truthy(self.measurement_id)
  THEN Raises("DataOutConnectorValueError", None)
  ELSE Returns

_validate_credentials(self) ==
  IF ~Truthy(self.api_secret)
  THEN Raises("DataOutConnectorValueError", None)
  ELSE IF self.payload_type \notin {"firebase", "gtag"}
  THEN Raises("DataOutConnectorValueError", None)
  ELSE IF self.payload_type = "firebase" /\ ~Truthy(self.firebase_app_id)
  THEN Raises("DataOutConnectorValueError", None)
  ELSE IF self.payload_type = "gtag" /\ ~Truthy(self.measurement_id)
  THEN Raises("DataOutConnectorValueError", None)
  ELSE Returns

\* The URL built for a validated Destination.
_build_api_url(self, is_post) ==
  << IF is_post THEN "https://www.google-analytics.com/mp/collect"
     ELSE "https://www.google-analytics.com/debug/mp/collect",
     "api_secret", self.api_secret,
     IF self.payload_type = "gtag" THEN "measurement_id" ELSE "firebase_app_id",
     IF self.payload_type = "gtag" THEN self.measurement_id
     ELSE self.firebase_app_id >>

\* The Destination __init__ leaves when it returns.
Constructed(cfg) ==
  Fields(cfg) @@ [post_url |-> _build_api_url(Fields(cfg), TRUE),
                  validate_url |-> _build_api_url(Fields(cfg), FALSE)]

\* No AirflowClient is in use.
ClientUnused ==
  /\ task = "none"
  /\ status_forcelist = {}
  /\ max_retries = 0
  /\ backoff_in_seconds = 0
  /\ retries_left = 0
  /\ client_pc = "idle"
  /\ client_response = None
  /\ received = << >>
  /\ gets = 0
  /\ sleeps = << >>
  /\ client_escaped = "none"
  /\ other_steps = 0
  /\ list_pc = "none"
  /\ runs = 0
  /\ run_logs = << >>
  /\ artifacts = << >>
  /\ http_log = << >>
  /\ validate_pc = "none"
  /\ target_result = None

\* No sum of RunResults is being computed.
SumUnused ==
  /\ operands = << >>
  /\ total = None
  /\ right_total = None
  /\ reversed = None

(***************************************************************************)
(* Destination(config) is about to be constructed.                         *)
(***************************************************************************)
Init ==
  /\ ClientUnused
  /\ SumUnused
  /\ init_config \in Configs
  /\ config = None
  /\ input_data = << >>
  /\ dry_run = FALSE
  /\ pc = "new"
  /\ i = 0
  /\ valid_events = << >>
  /\ invalid_indices_and_errors = << >>
  /\ sent = 0
  /\ response = None
  /\ validated = << >>
  /\ posted = << >>
  /\ post_response = None
  /\ calls = << >>
  /\ escaped = "none"
  /\ run_result = None

\* Destination.__init__: the fields are set and validated; the constructor
\* returns a Destination or raises the configuration error.
Construct ==
  /\ pc = "new"
  /\ IF _validate_credentials(Fields(init_config)).exc = "none"
     THEN /\ config' = Constructed(init_config)
          /\ pc' = "idle"
          /\ UNCHANGED escaped
     ELSE /\ config' = Fields(init_config)
          /\ pc' = "config_error"
          /\ escaped' = _validate_credentials(Fields(init_config)).exc
  /\ UNCHANGED << init_config, input_data, dry_run, i, valid_events,
                  invalid_indices_and_errors, sent, response, validated,
                  posted, post_response, calls, run_result >>
  /\ UNCHANGED << clientVars, sumVars >>

\* send_data(input_data, dry_run) is called with a batch of n events.
CallSendData ==
  /\ pc = "idle"
  /\ \E n \in 0..MaxEvents, dr \in BOOLEAN :
       /\ input_data' = [k \in 1..n |-> EventRecord(k - 1)]
       /\ dry_run' = dr
  /\ pc' = "validate"
  /\ UNCHANGED << init_config, config, i, valid_events, invalid_indices_and_errors, sent,
                  response, validated, posted, calls, escaped, run_result,
                  post_response >>
  /\ UNCHANGED << clientVars, sumVars >>

\* A faulty variant: the append to valid is outside the try block.
AfterValidate_both(valid, invalid, idx, payload, result) ==
  IF result.exc = "DataOutConnectorValueError"
  THEN << Append(valid, << idx, payload >>),
          Append(invalid, << idx, result.error_num >>) >>
  ELSE << Append(valid, << idx, payload >>), invalid >>

\* The lists after the try/except of the validation loop, for event index
\* idx with its payload and the result of the try block.
AfterValidate(valid, invalid, idx, payload, result) ==
  IF result.exc = "none"
  THEN << Append(valid, << idx, payload >>), invalid >>
  ELSE IF result.exc = "DataOutConnectorValueError"
  THEN << valid, Append(invalid, << idx, result.error_num >>) >>
  ELSE << valid, invalid >>

\* One iteration of the loop of _get_valid_and_invalid_events: event i is
\* built, POSTed to the validation URL and the answer is parsed.
ValidateEvent ==
  /\ pc = "validate"
  /\ i < Len(input_data)
  /\ \E net \in SandboxOutcomes :
       LET payload == BuildPayload(config, input_data[i + 1])
           result == ValidateOutcome(net)
           lists == AfterValidate(valid_events, invalid_indices_and_errors,
                                  i, PayloadAfterValidate(payload), result)
       IN /\ calls' = Append(calls, Request("validate_url", i,
                                            ValidatingPayload(payload)))
          /\ response' = net
          /\ validated' = Append(validated, result)
          /\ valid_events' = lists[1]
          /\ invalid_indices_and_errors' = lists[2]
          /\ IF result.exc \in {"none", "DataOutConnectorValueError"}
             THEN /\ i' = i + 1
                  /\ UNCHANGED << pc, escaped >>
             ELSE /\ pc' = "raised"
                  /\ escaped' = result.exc
                  /\ UNCHANGED i
  /\ UNCHANGED << init_config, config, input_data, dry_run, sent, posted, run_result,
                  post_response >>
  /\ UNCHANGED << clientVars, sumVars >>

\* A faulty variant: the return statement is inside the loop.
ReturnValidAndInvalid_in_loop ==
  /\ pc = "validate"
  /\ i >= 1 \/ Len(input_data) = 0
  /\ pc' = "send"
  /\ UNCHANGED << init_config, config, input_data, dry_run, i, valid_events,
                  invalid_indices_and_errors, sent, response, validated, posted,
                  calls, escaped, run_result, post_response >>
  /\ UNCHANGED << clientVars, sumVars >>

\* _get_valid_and_invalid_events returns its two lists to send_data.
ReturnValidAndInvalid ==
  /\ pc = "validate"
  /\ i = Len(input_data)
  /\ pc' = "send"
  /\ UNCHANGED << init_config, config, input_data, dry_run, i, valid_events,
                  invalid_indices_and_errors, sent, response, validated, posted,
                  calls, escaped, run_result,
                  post_response >>
  /\ UNCHANGED << clientVars, sumVars >>

\* A faulty variant: the send loop runs whatever dry_run is.
SendsEvents_always(dr) == TRUE

\* if not dry_run
SendsEvents(dr) == ~dr

\* A faulty variant: the send failure is inserted at the front.
AfterSendFailure_front(invalid, index, error_num) ==
  << << index, error_num >> >> \o invalid

\* The invalid list after a send failure of the event with this index.
AfterSendFailure(invalid, index, error_num) ==
  Append(invalid, << index, error_num >>)

\* One iteration of the send loop: the next valid event is handed to
\* _send_payload.
SendEvent ==
  /\ pc = "send"
  /\ SendsEvents(dry_run)
  /\ sent < Len(valid_events)
  /\ LET valid_event == valid_events[sent + 1] IN
       \/ /\ config.debug
          /\ pc' = "raised"
          /\ escaped' = _send_payload_debug.exc
          /\ posted' = Append(posted, << valid_event[1], _send_payload_debug >>)
          /\ UNCHANGED << sent, invalid_indices_and_errors, calls,
                          post_response >>
       \/ /\ ~config.debug
          /\ \E net \in ProductionOutcomes :
               LET result == _send_payload(net) IN
                 /\ calls' = Append(calls, Request("post_url", valid_event[1],
                                                   valid_event[2]))
                 /\ invalid_indices_and_errors' =
                      IF result.exc \in {"DataOutConnectorSendUnsuccessfulError",
                                          "DataOutConnectorValueError"}
                      THEN AfterSendFailure(invalid_indices_and_errors,
                                            valid_event[1], result.error_num)
                      ELSE invalid_indices_and_errors
                 /\ posted' = Append(posted, << valid_event[1], result >>)
                 /\ post_response' = net
                 /\ sent' = sent + 1
                 /\ UNCHANGED << pc, escaped >>
  /\ UNCHANGED << init_config, config, input_data, dry_run, i, valid_events, response,
                  validated, run_result >>
  /\ UNCHANGED << clientVars, sumVars >>

\* The RunResult send_data builds from its two lists.
BuildRunResult(valid, invalid, dr) ==
  RunResult(Len(valid), Len(invalid),
            [k \in 1..Len(invalid) |-> Str(invalid[k][2])], dr)

\* send_data returns.
ReturnRunResult ==
  /\ pc = "send"
  /\ ~SendsEvents(dry_run) \/ sent = Len(valid_events)
  /\ run_result' = BuildRunResult(valid_events, invalid_indices_and_errors,
                                  dry_run)
  /\ pc' = "done"
  /\ UNCHANGED << init_config, config, input_data, dry_run, i, valid_events,
                  invalid_indices_and_errors, sent, response, validated, posted,
                  calls, escaped,
                  post_response >>
  /\ UNCHANGED << clientVars, sumVars >>

Next ==
  \/ Construct
  \/ CallSendData
  \/ ValidateEvent
  \/ ReturnValidAndInvalid
  \/ SendEvent
  \/ ReturnRunResult

Spec == Init /\ [][Next]_vars

(***************************************************************************)
(* The validator on its own: _send_validate_request followed by            *)
(* _parse_validate_result, applied to one answer of the network.           *)
(***************************************************************************)
InitValidate ==
  /\ ClientUnused
  /\ SumUnused
  /\ init_config = [api_secret |-> "secret", payload_type |-> "gtag",
                    measurement_id |-> "G-1"]
  /\ config = Constructed(init_config)
  /\ input_data = << EventRecord(0) >>
  /\ dry_run = TRUE
  /\ pc = "validator"
  /\ i = 0
  /\ valid_events = << >>
  /\ invalid_indices_and_errors = << >>
  /\ sent = 0
  /\ response \in ValidatorOutcomes
  /\ post_response = None
  /\ validated = << >>
  /\ posted = << >>
  /\ calls = << >>
  /\ escaped = "none"
  /\ run_result = None

\* The try block of the validation loop runs on the answer.
Validate ==
  /\ pc = "validator"
  /\ validated' = Append(validated, ValidateOutcome(response))
  /\ calls' = Append(calls, Request("validate_url", i,
               ValidatingPayload(BuildPayload(config, input_data[i + 1]))))
  /\ pc' = "validated"
  /\ UNCHANGED << init_config, config, input_data, dry_run, i, valid_events,
                  invalid_indices_and_errors, sent, response, posted,
                  escaped, run_result,
                  post_response >>
  /\ UNCHANGED << clientVars, sumVars >>

NextValidate == Validate

SpecValidate == InitValidate /\ [][NextValidate]_vars

(***************************************************************************)
(* RunResult.__add__ (dags/utils.py), applied to sequences of RunResults.  *)
(***************************************************************************)

\* The RunResults that are combined.
RunResults ==
  { RunResult(sh, f[1], f[2], dr) :
      sh \in {0, 2},
      f \in { << 0, << >> >>, << 1, << "a" >> >>, << 2, << "b", "c" >> >> },
      dr \in BOOLEAN }

\* A faulty variant: dry_run is combined with and.
__add___and(self, other) ==
  RunResult(self.successful_hits + other.successful_hits,
            self.failed_hits + other.failed_hits,
            self.error_messages \o other.error_messages,
            self.dry_run /\ other.dry_run)

\* self + other
__add__(self, other) ==
  RunResult(self.successful_hits + other.successful_hits,
            self.failed_hits + other.failed_hits,
            self.error_messages \o other.error_messages,
            self.dry_run \/ other.dry_run)

\* r1 + (r2 + (... + rn)) for a non-empty sequence
RECURSIVE SumRight(_)
SumRight(rs) ==
  IF Len(rs) = 1 THEN rs[1] ELSE __add__(rs[1], SumRight(Tail(rs)))

\* No Destination is in use.
DestinationUnused ==
  /\ init_config = None
  /\ config = None
  /\ input_data = << >>
  /\ dry_run = FALSE
  /\ pc = "unused"
  /\ i = 0
  /\ valid_events = << >>
  /\ invalid_indices_and_errors = << >>
  /\ sent = 0
  /\ response = None
  /\ validated = << >>
  /\ posted = << >>
  /\ post_response = None
  /\ calls = << >>
  /\ escaped = "none"
  /\ run_result = None

InitSum ==
  /\ DestinationUnused
  /\ ClientUnused
  /\ \E r \in RunResults :
       /\ operands = << r >>
       /\ total = r
       /\ right_total = r
       /\ reversed = r

\* One more RunResult is combined with the ones so far, on the right of the
\* left-nested sum, at the end of the right-nested sum, and on the left of
\* the sum in reverse order.
AddOperand ==
  /\ Len(operands) < MaxOperands
  /\ \E r \in RunResults :
       /\ operands' = Append(operands, r)
       /\ total' = __add__(total, r)
       /\ right_total' = SumRight(Append(operands, r))
       /\ reversed' = __add__(r, reversed)
  /\ UNCHANGED << destinationVars, clientVars >>

NextSum == AddOperand

SpecSum == InitSum /\ [][NextSum]_vars

(***************************************************************************)
(* AirflowClient: _get_request, _get_dag_run_xcom and list_dag_runs, and   *)
(* one other task of the event loop the client's coroutines run on.        *)
(***************************************************************************)

\* An httpx request that ends without a response.
TransportError == [kind |-> "httpx.TransportError"]

\* A dict without keys.
EmptyDict == [key \in {} |-> None]

\* What an xcom entry holds under "value": JSON null or a string, which is
\* empty, the repr of a dict, or text that is not a Python literal.
Null == [kind |-> "null"]
EmptyStr == [kind |-> "str", text |-> "empty"]
Repr(dict) == [kind |-> "str", text |-> "repr", dict |-> dict]
Unterminated == [kind |-> "str", text |-> "unterminated"]
BareName == [kind |-> "str", text |-> "name"]

\* ast.literal_eval(text): the value a literal denotes, or the parser's error.
literal_eval(text) ==
  IF text.kind # "str"
  THEN [exc |-> "ValueError"]
  ELSE CASE text.text = "repr" -> [exc |-> "none", value |-> text.dict]
         [] text.text = "name" -> [exc |-> "ValueError"]
         [] OTHER -> [exc |-> "SyntaxError"]

\* value or '{}'
OrEmptyDict(value) ==
  IF value = Null \/ value = EmptyStr THEN Repr(EmptyDict) ELSE value

\* RunResult(**run_result): absent fields take their defaults.
RunResultOf(dict) ==
  RunResult(Get(dict, "successful_hits", 0), Get(dict, "failed_hits", 0),
            Get(dict, "error_messages", << >>), Get(dict, "dry_run", FALSE))

\* Lines 131 to 134 of list_dag_runs on the response of the xcom GET.
ParseRunResult(run_result_response) ==
  IF ~run_result_response.body.json
  THEN [exc |-> "JSONDecodeError"]
  ELSE LET run_result_json == run_result_response.body.value
           parsed == literal_eval(OrEmptyDict(Get(run_result_json, "value", Null)))
       IN  IF parsed.exc # "none"
           THEN [exc |-> parsed.exc]
           ELSE [exc |-> "none", run_result |-> RunResultOf(parsed.value)]

\* The dicts run results are the repr of.
RunResultDicts ==
  { [successful_hits |-> 2, failed_hits |-> 1, error_messages |-> << "a" >>,
     dry_run |-> TRUE],
    [successful_hits |-> 2] }

\* The dict a validation result is the repr of.
ValidationDict == [is_valid |-> TRUE, messages |-> << >>]

\* The bodies of the answers to an xcom GET.
XcomBodies ==
  { NotJson, Json([detail |-> "not found"]), Json([value |-> Null]),
    Json([value |-> EmptyStr]), Json([value |-> Unterminated]),
    Json([value |-> BareName]) }
  \cup { Json([value |-> Repr(d)]) : d \in RunResultDicts \cup {ValidationDict} }

\* The ways a GET of the client ends.
GetOutcomes ==
  { TransportError }
  \cup { Response(200, b) : b \in XcomBodies }
  \cup { Response(404, b) : b \in { NotJson, Json([detail |-> "not found"]) } }
  \cup { Response(503, NotJson) }

\* The ways the POST of list_dag_runs ends: no answer, or a listing of n runs.
ListOutcomes ==
  { TransportError }
  \cup { Response(200, Json([dag_runs |-> n, total_entries |-> n])) :
           n \in 0..MaxRuns }

\* The status_forcelist arguments.
Forcelists == { {}, {404}, {404, 503} }

\* random.uniform(0, 1), in tenths.
Jitters == {0, 10}

\* The test of the while loop of _get_request.
ShouldRetry_inclusive(left, response_, forcelist) ==
  left >= 0 /\ response_.status_code \in forcelist

ShouldRetry_not_ok(left, response_, forcelist) ==
  left > 0 /\ response_.status_code # 200

ShouldRetry(left, response_, forcelist) ==
  left > 0 /\ response_.status_code \in forcelist

\* backoff_in_seconds * 2**retries_tried
Backoff_linear(backoff, retries_tried) == backoff * (retries_tried + 1)

Backoff(backoff, retries_tried) == backoff * 2^retries_tried

\* _get_request is called: its first GET is awaited.
StartGet(forcelist, retries, backoff) ==
  /\ status_forcelist' = forcelist
  /\ max_retries' = retries
  /\ backoff_in_seconds' = backoff
  /\ retries_left' = 0
  /\ client_pc' = "get"
  /\ client_response' = None
  /\ received' = << >>
  /\ gets' = 1
  /\ sleeps' = << >>
  /\ http_log' = Append(http_log, "GET")

\* A task calls _get_request with arguments of its choice.
CallGetRequest ==
  /\ task = "none"
  /\ task' = "_get_request"
  /\ \E forcelist \in Forcelists, retries \in 0..MaxRetries,
        backoff \in 1..MaxBackoff :
       StartGet(forcelist, retries, backoff)
  /\ UNCHANGED << client_escaped, other_steps, list_pc, runs, run_logs,
                  artifacts, destinationVars, sumVars, targetVars >>

\* The awaited GET ends. On a response the loop test runs: either the next
\* sleep begins or _get_request returns the response.
GetResponds ==
  /\ client_pc \in {"get", "retry_get"}
  /\ \E net \in GetOutcomes :
       IF net.kind # "response"
       THEN /\ client_pc' = "raised"
            /\ client_escaped' = net.kind
            /\ list_pc' = IF task = "list_dag_runs" THEN "raised" ELSE list_pc
            /\ validate_pc' = IF task = "_validate_target" THEN "raised"
                              ELSE validate_pc
            /\ UNCHANGED << retries_left, client_response, received, sleeps >>
       ELSE LET left == IF client_pc = "get" THEN max_retries
                        ELSE retries_left - 1
            IN  /\ client_response' = net
                /\ received' = Append(received, net)
                /\ retries_left' = left
                /\ IF ShouldRetry(left, net, status_forcelist)
                   THEN /\ \E jitter \in Jitters :
                             sleeps' = Append(sleeps,
                               [base |-> Backoff(backoff_in_seconds,
                                                 max_retries - left),
                                jitter |-> jitter])
                        /\ client_pc' = "sleep"
                   ELSE /\ sleeps' = sleeps
                        /\ client_pc' = "returned"
                /\ UNCHANGED << client_escaped, list_pc, validate_pc >>
  /\ UNCHANGED << task, status_forcelist, max_retries, backoff_in_seconds,
                  gets, other_steps, runs, run_logs, artifacts, http_log,
                  target_result, destinationVars, sumVars >>

\* time.sleep returns and the retry's GET is awaited.
SleepEnds ==
  /\ client_pc = "sleep"
  /\ client_pc' = "retry_get"
  /\ gets' = gets + 1
  /\ http_log' = Append(http_log, "GET")
  /\ UNCHANGED << task, status_forcelist, max_retries, backoff_in_seconds,
                  retries_left, client_response, received, sleeps,
                  client_escaped, other_steps, list_pc, runs, run_logs,
                  artifacts, destinationVars, sumVars, targetVars >>

\* The client's coroutine is suspended at an await.
Suspended ==
  client_pc \in {"get", "retry_get"} \/ list_pc = "post" \/ validate_pc = "trigger"

\* No coroutine of the client is in progress.
Finished ==
  \/ task = "none"
  \/ task = "_get_request" /\ client_pc \in {"returned", "raised"}
  \/ task = "list_dag_runs" /\ list_pc \in {"done", "raised"}
  \/ task = "_validate_target" /\ validate_pc \in {"done", "raised"}

\* Another task of the event loop runs one step. The loop has one thread:
\* it runs another task only while no coroutine occupies it, and a coroutine
\* inside time.sleep occupies it.
OtherTask ==
  /\ other_steps < MaxOtherSteps
  /\ Suspended \/ Finished
  /\ other_steps' = other_steps + 1
  /\ UNCHANGED << task, status_forcelist, max_retries, backoff_in_seconds,
                  retries_left, client_pc, client_response, received, gets,
                  sleeps, client_escaped, list_pc, runs, run_logs, artifacts,
                  http_log, destinationVars, sumVars, targetVars >>

\* A task calls list_dag_runs: the POST of the listing is awaited.
CallListDagRuns ==
  /\ task = "none"
  /\ task' = "list_dag_runs"
  /\ list_pc' = "post"
  /\ http_log' = Append(http_log, "POST")
  /\ UNCHANGED << status_forcelist, max_retries, backoff_in_seconds,
                  retries_left, client_pc, client_response, received, gets,
                  sleeps, client_escaped, other_steps, runs, run_logs,
                  artifacts, destinationVars, sumVars, targetVars >>

\* The POST ends: the listing's runs are taken and run_logs starts empty.
ListResponds ==
  /\ list_pc = "post"
  /\ \E net \in ListOutcomes :
       IF net.kind # "response"
       THEN /\ list_pc' = "raised"
            /\ client_escaped' = net.kind
            /\ UNCHANGED << runs, run_logs >>
       ELSE /\ list_pc' = "runs"
            /\ runs' = net.body.value.dag_runs
            /\ run_logs' = << >>
            /\ UNCHANGED client_escaped
  /\ UNCHANGED << task, status_forcelist, max_retries, backoff_in_seconds,
                  retries_left, client_pc, client_response, received, gets,
                  sleeps, other_steps, artifacts, http_log, destinationVars,
                  sumVars, targetVars >>

\* The loop over runs calls _get_dag_run_xcom for the next run, which calls
\* _get_request with an empty status_forcelist and the other defaults.
ListFetch ==
  /\ list_pc = "runs"
  /\ client_pc = "idle"
  /\ Len(run_logs) < runs
  /\ StartGet({}, 3, 1)
  /\ UNCHANGED << task, client_escaped, other_steps, list_pc, runs, run_logs,
                  artifacts, destinationVars, sumVars, targetVars >>

\* The xcom response is parsed and the run's log appended.
ListParse ==
  /\ list_pc = "runs"
  /\ client_pc = "returned"
  /\ client_pc' = "idle"
  /\ artifacts' = Append(artifacts, client_response)
  /\ LET parsed == ParseRunResult(client_response)
     IN  IF parsed.exc # "none"
         THEN /\ list_pc' = "raised"
              /\ client_escaped' = parsed.exc
              /\ UNCHANGED run_logs
         ELSE /\ run_logs' = Append(run_logs, parsed.run_result)
              /\ UNCHANGED << list_pc, client_escaped >>
  /\ UNCHANGED << task, status_forcelist, max_retries, backoff_in_seconds,
                  retries_left, client_response, received, gets, sleeps,
                  other_steps, runs, http_log, destinationVars, sumVars, targetVars >>

\* Every run has its log: list_dag_runs returns.
ListReturn ==
  /\ list_pc = "runs"
  /\ client_pc = "idle"
  /\ Len(run_logs) = runs
  /\ list_pc' = "done"
  /\ UNCHANGED << task, status_forcelist, max_retries, backoff_in_seconds,
                  retries_left, client_pc, client_response, received, gets,
                  sleeps, client_escaped, other_steps, runs, run_logs,
                  artifacts, http_log, destinationVars, sumVars, targetVars >>

\* ValidationResult(**validation_result): is_valid is required.
ValidationResultOf(dict) ==
  IF "is_valid" \in DOMAIN dict
  THEN [exc |-> "none",
        result |-> [is_valid |-> dict.is_valid,
                    messages |-> Get(dict, "messages", << >>)]]
  ELSE [exc |-> "ValidationError"]

\* ValidationResult(is_valid=False, messages=f"Target `{target_name}` is
\* unavailable.")
TargetUnavailable == [is_valid |-> FALSE, messages |-> "Target is unavailable."]

\* The test of _validate_target on the polled response.
IsUnavailable_only_not_found(xcom_response) == xcom_response.status_code = 404

IsUnavailable(xcom_response) == xcom_response.status_code # 200

\* Lines 74 to 77 of _validate_target on a polled response.
ParseValidationResult(xcom_response) ==
  IF ~xcom_response.body.json
  THEN [exc |-> "JSONDecodeError"]
  ELSE LET parsed_xcom_response == xcom_response.body.value
       IN  IF "value" \notin DOMAIN parsed_xcom_response
           THEN [exc |-> "KeyError"]
           ELSE LET parsed == literal_eval(parsed_xcom_response.value)
                IN  IF parsed.exc # "none"
                    THEN [exc |-> parsed.exc]
                    ELSE ValidationResultOf(parsed.value)

\* The ways the POST of trigger ends: no answer, the run accepted, or an
\* answer without a dag_run_id or that is not JSON.
TriggerOutcomes ==
  { TransportError,
    Response(200, Json([dag_run_id |-> "run"])),
    Response(404, Json([detail |-> "not found"])),
    Response(503, NotJson) }

\* A task calls _validate_target: trigger's POST is awaited.
CallValidateTarget ==
  /\ task = "none"
  /\ task' = "_validate_target"
  /\ validate_pc' = "trigger"
  /\ http_log' = Append(http_log, "POST")
  /\ UNCHANGED << status_forcelist, max_retries, backoff_in_seconds,
                  retries_left, client_pc, client_response, received, gets,
                  sleeps, client_escaped, other_steps, list_pc, runs, run_logs,
                  artifacts, target_result, destinationVars, sumVars >>

\* The trigger's POST ends: the dag_run_id is read from its content and
\* _get_request is called with its defaults.
TriggerResponds ==
  /\ validate_pc = "trigger"
  /\ \E net \in TriggerOutcomes :
       LET exc == IF net.kind # "response" THEN net.kind
                  ELSE IF ~net.body.json THEN "JSONDecodeError"
                  ELSE IF "dag_run_id" \notin DOMAIN net.body.value
                  THEN "KeyError"
                  ELSE "none"
       IN  IF exc # "none"
           THEN /\ validate_pc' = "raised"
                /\ client_escaped' = exc
                /\ UNCHANGED << status_forcelist, max_retries,
                                backoff_in_seconds, retries_left, client_pc,
                                client_response, received, gets, sleeps,
                                http_log >>
           ELSE /\ validate_pc' = "poll"
                /\ StartGet({404}, 3, 1)
                /\ UNCHANGED client_escaped
  /\ UNCHANGED << task, other_steps, list_pc, runs, run_logs, artifacts,
                  target_result, destinationVars, sumVars >>

\* _get_request has returned: the target is unavailable, or the polled
\* response is parsed into the ValidationResult.
ValidateReturn ==
  /\ validate_pc = "poll"
  /\ client_pc = "returned"
  /\ IF IsUnavailable(client_response)
     THEN /\ target_result' = TargetUnavailable
          /\ validate_pc' = "done"
          /\ UNCHANGED client_escaped
     ELSE LET parsed == ParseValidationResult(client_response)
          IN  IF parsed.exc # "none"
              THEN /\ validate_pc' = "raised"
                   /\ client_escaped' = parsed.exc
                   /\ UNCHANGED target_result
              ELSE /\ target_result' = parsed.result
                   /\ validate_pc' = "done"
                   /\ UNCHANGED client_escaped
  /\ UNCHANGED << task, status_forcelist, max_retries, backoff_in_seconds,
                  retries_left, client_pc, client_response, received, gets,
                  sleeps, other_steps, list_pc, runs, run_logs, artifacts,
                  http_log, destinationVars, sumVars >>

InitClient ==
  /\ DestinationUnused
  /\ SumUnused
  /\ ClientUnused

NextClient ==
  \/ CallGetRequest
  \/ GetResponds
  \/ SleepEnds
  \/ OtherTask
  \/ CallListDagRuns
  \/ ListResponds
  \/ ListFetch
  \/ ListParse
  \/ ListReturn
  \/ CallValidateTarget
  \/ TriggerResponds
  \/ ValidateReturn

SpecClient == InitClient /\ [][NextClient]_vars

(***************************************************************************)
(* Properties                                                              *)
(***************************************************************************)

\* The indices of a list of (index, x) pairs.
Indices(list) == { list[k][1] : k \in 1..Len(list) }

\* How many entries of a list of (index, x) pairs carry this index.
Occurrences(list, index) == Cardinality({ k \in 1..Len(list) : list[k][1] = index })

\* The events of the batch, by index.
Batch == 0..(Len(input_data) - 1)

\* send_data has returned its RunResult.
Returned == pc = "done"

\* The events whose sandbox validation ended without an error.
PassedValidation == { k \in Batch : k < Len(validated) /\ validated[k + 1].exc = "none" }

\* The events whose _send_payload call ended with an error.
FailedSend == { posted[k][1] : k \in { n \in 1..Len(posted) : posted[n][2].exc # "none" } }

\* C1: for every batch of N events, whatever the sandbox and the production
\* endpoint answer and whatever dry_run is, the RunResult send_data returns
\* has successful_hits + failed_hits = N.
C1_HitsSumToBatchSize ==
  Returned =>
    run_result.successful_hits + run_result.failed_hits = Len(input_data)

\* C2: in the RunResult send_data returns, successful_hits is the number of
\* events that failed at neither stage: an event that passed validation and
\* whose production POST failed counts in failed_hits and not in
\* successful_hits.
C2_SuccessfulHitsAreEventsWithoutFailure ==
  Returned =>
    /\ run_result.successful_hits = Cardinality(PassedValidation \ FailedSend)
    /\ run_result.failed_hits = Len(invalid_indices_and_errors)
    /\ FailedSend \subseteq Indices(invalid_indices_and_errors)

\* _get_valid_and_invalid_events has just returned its two lists.
ValidationReturned == pc = "send" /\ sent = 0

\* C3: when _get_valid_and_invalid_events returns for a batch of N events,
\* len(valid) + len(invalid) = N and every index 0..N-1 occurs in exactly one
\* of the two lists, exactly once.
C3_ValidInvalidPartition ==
  ValidationReturned =>
    /\ Len(valid_events) + Len(invalid_indices_and_errors) = Len(input_data)
    /\ Indices(valid_events) \cup Indices(invalid_indices_and_errors) = Batch
    /\ \A k \in Batch :
         Occurrences(valid_events, k)
           + Occurrences(invalid_indices_and_errors, k) = 1

C3_Witness ==
  /\ ValidationReturned
  /\ Len(input_data) >= 3
  /\ Len(valid_events) >= 1
  /\ Len(invalid_indices_and_errors) >= 2

\* A list of (index, x) pairs is in strictly increasing index order.
Increasing(list) ==
  \A a, b \in 1..Len(list) : a < b => list[a][1] < list[b][1]

\* C4: in send_data's output the valid list is in strictly increasing index
\* order, and the invalid list (hence error_messages) is all the
\* sandbox-validation failures in increasing index order followed by all the
\* send-stage failures in increasing index order.
C4_StagesInOrder ==
  Returned =>
    /\ Increasing(valid_events)
    /\ \E m \in 0..Len(invalid_indices_and_errors) :
         LET stage1 == SubSeq(invalid_indices_and_errors, 1, m)
             stage2 == SubSeq(invalid_indices_and_errors, m + 1,
                              Len(invalid_indices_and_errors))
         IN /\ Increasing(stage1)
            /\ Increasing(stage2)
            /\ Indices(stage1) = Batch \ PassedValidation
            /\ Len(stage1) = Cardinality(Batch \ PassedValidation)
            /\ \A k \in 1..Len(stage1) :
                 stage1[k][2] = validated[stage1[k][1] + 1].error_num
            /\ Indices(stage2) = FailedSend
            /\ Len(stage2) = Cardinality(FailedSend)
            /\ \A k \in 1..Len(stage2) :
                 stage2[k][2] = RETRIABLE_GA_HOOK_ERROR_HTTP_ERROR
    /\ Len(run_result.error_messages) = Len(invalid_indices_and_errors)
    /\ \A k \in 1..Len(invalid_indices_and_errors) :
         run_result.error_messages[k] = Str(invalid_indices_and_errors[k][2])

\* A send failure of event 0 is listed after the validation failure of
\* event 1, and before the send failure of event 2.
C4_Witness ==
  /\ Returned
  /\ Len(invalid_indices_and_errors) >= 3
  /\ invalid_indices_and_errors[1][1] = 1
  /\ invalid_indices_and_errors[2][1] = 0
  /\ invalid_indices_and_errors[3][1] = 2

\* The requests issued to the production endpoint so far.
ProductionPosts == { k \in 1..Len(calls) : calls[k].url = "post_url" }

\* C5: with dry_run = True no POST to the production endpoint is ever
\* issued, whatever the sandbox answers, and the successful_hits returned is
\* the number of events that passed sandbox validation.
C5_DryRunNeverPosts ==
  dry_run =>
    /\ ProductionPosts = {}
    /\ posted = << >>
    /\ Returned =>
         run_result.successful_hits = Cardinality(PassedValidation)

C5_Witness ==
  /\ Returned
  /\ dry_run
  /\ run_result.successful_hits >= 2
  /\ run_result.failed_hits >= 1

\* The call of send_data is over: it returned or an exception left it.
Over == pc \in {"done", "raised"}

\* C6: a failure on one event never aborts the batch: every one of the N
\* events is submitted to sandbox validation exactly once whatever happened
\* to the earlier events, and (when not dry-run) every event in valid gets a
\* send attempt whatever happened to the earlier sends.
C6_FailureNeverAbortsBatch ==
  Over =>
    /\ \A k \in Batch :
         Cardinality({ c \in 1..Len(calls) :
           calls[c].url = "validate_url" /\ calls[c].index = k }) = 1
    /\ ~dry_run => Indices(valid_events) \subseteq Indices(posted)

Validated == pc = "validated"

\* The answer is a 200 whose body is JSON with a non-empty validationMessages.
HasDiagnostic ==
  /\ response.kind = "response"
  /\ response.status_code = 200
  /\ response.body.json
  /\ "validationMessages" \in DOMAIN response.body.value
  /\ response.body.value["validationMessages"] # << >>

\* The fieldPath and the description of the first validation message.
FirstFieldPath ==
  Get(response.body.value["validationMessages"][1], "fieldPath", "")
FirstDescription ==
  Get(response.body.value["validationMessages"][1], "description", "")

\* The table entries the first validation message matches.
Matching ==
  { k \in 1..Len(_ERROR_TYPES) :
      \/ FirstFieldPath = _ERROR_TYPES[k][1]
      \/ Contains(FirstDescription, _ERROR_TYPES[k][1]) }

\* The codes a validation failure can carry.
ErrorCodes ==
  { _ERROR_TYPES[k][2] : k \in 1..Len(_ERROR_TYPES) }
  \cup { GA4_HOOK_ERROR_INVALID_VALUES }

\* C8: the sandbox validator classifies a transport failure and a status >=
\* 500 as the retryable HTTP error code, any other status but 200 as the
\* terminal 'event not sent' code, a 200 whose body is not JSON as the same
\* retryable code as a status >= 500, and a 200 with an empty
\* validationMessages as success.
C8_ValidatorClassification ==
  Validated =>
    /\ response.kind = "ConnectionError" =>
         validated[1] = Raises("DataOutConnectorValueError",
                               RETRIABLE_GA4_HOOK_ERROR_HTTP_ERROR)
    /\ response.kind = "response" =>
         /\ response.status_code >= 500 =>
              validated[1] = Raises("DataOutConnectorValueError",
                                    RETRIABLE_GA4_HOOK_ERROR_HTTP_ERROR)
         /\ response.status_code < 500 /\ response.status_code # 200 =>
              validated[1] = Raises("DataOutConnectorValueError",
                                    NON_RETRIABLE_ERROR_EVENT_NOT_SENT)
         /\ response.status_code = 200 /\ ~response.body.json =>
              validated[1] = Raises("DataOutConnectorValueError",
                                    RETRIABLE_GA4_HOOK_ERROR_HTTP_ERROR)
         /\ response = Response(200, Json([validationMessages |-> << >>])) =>
              validated[1] = Returns

C10_FieldPathTakesPriority ==
  Validated /\ HasDiagnostic =>
    \A k \in 1..Len(_ERROR_TYPES) :
      FirstFieldPath = _ERROR_TYPES[k][1] =>
        validated[1].error_num = _ERROR_TYPES[k][2]

\* The requests issued for the event with this index, to this URL.
CallsFor(url, index) ==
  { c \in 1..Len(calls) : calls[c].url = url /\ calls[c].index = index }

\* _send_payload has been called with debug off; its latest call is the last
\* entry of posted and was answered by post_response.
SentWithDebugOff ==
  /\ pc \in {"send", "done"}
  /\ ~config.debug
  /\ posted # << >>

\* C11: with debug off the sender issues exactly one production POST per
\* call and does not retry; a status in [200,300) is success, every other
\* status and a transport error are a send failure carrying the retryable
\* send error code, which send_data appends to invalid with the event's
\* index.
C11_OnePostPerSend ==
  SentWithDebugOff =>
    LET last == posted[Len(posted)]
        ok == /\ post_response.kind = "response"
              /\ post_response.status_code >= 200
              /\ post_response.status_code < 300
    IN /\ Cardinality(ProductionPosts) = Len(posted)
       /\ \A k \in 1..Len(posted) :
            Cardinality(CallsFor("post_url", posted[k][1])) = 1
       /\ ok => last[2] = Returns
       /\ ok => last[1] \notin Indices(invalid_indices_and_errors)
       /\ ~ok =>
            /\ last[2] = Raises("DataOutConnectorSendUnsuccessfulError",
                                RETRIABLE_GA_HOOK_ERROR_HTTP_ERROR)
            /\ invalid_indices_and_errors # << >>
            /\ invalid_indices_and_errors[Len(invalid_indices_and_errors)]
                 = << last[1], RETRIABLE_GA_HOOK_ERROR_HTTP_ERROR >>

\* Three sends: two failed (one of them on a status 300), one succeeded.
C11_Witness ==
  /\ SentWithDebugOff
  /\ Len(posted) = 3
  /\ Cardinality(FailedSend) = 2
  /\ post_response = Response(300, NotJson)

\* C12: with the destination's debug flag set the sender returns success for
\* every valid payload without a network call, so send_data completes
\* normally and adds no send-stage failure.
C12_DebugSendSucceeds ==
  pc \in {"send", "done", "raised"} /\ config.debug =>
    /\ ProductionPosts = {}
    /\ \A k \in 1..Len(posted) : posted[k][2] = Returns
    /\ escaped \notin {"AttributeError"}
    /\ sent = Len(posted)

\* The config lacks the API secret, names no supported payload type, or lacks
\* the identifier of its payload type.
BadConfig(cfg) ==
  \/ ~Truthy(Get(cfg, "api_secret", None))
  \/ Get(cfg, "payload_type", None) \notin {"gtag", "firebase"}
  \/ /\ Get(cfg, "payload_type", None) = "gtag"
     /\ ~Truthy(Get(cfg, "measurement_id", None))
  \/ /\ Get(cfg, "payload_type", None) = "firebase"
     /\ ~Truthy(Get(cfg, "firebase_app_id", None))

\* C19: constructing a Destination without an API secret, with an
\* unsupported payload type, or without the identifier of its payload type
\* fails with a configuration error before any network request; so every
\* Destination on which send_data can be called has a secret, a supported
\* payload type and the matching identifier.
C19_BadConfigFailsConstruction ==
  pc # "new" =>
    /\ BadConfig(init_config) =>
         /\ pc = "config_error"
         /\ escaped = "DataOutConnectorValueError"
         /\ calls = << >>
         /\ input_data = << >>
    /\ pc # "config_error" =>
         /\ config.api_secret \notin {None, ""}
         /\ config.payload_type \in {"gtag", "firebase"}
         /\ config.payload_type = "gtag" =>
              /\ "measurement_id" \in DOMAIN config
              /\ config.measurement_id \notin {None, ""}
         /\ config.payload_type = "firebase" =>
              /\ "firebase_app_id" \in DOMAIN config
              /\ config.firebase_app_id \notin {None, ""}

\* A gtag config with a secret and the identifier of the other payload type
\* only is refused.
C19_Witness ==
  /\ pc = "config_error"
  /\ Get(init_config, "api_secret", None) = "secret"
  /\ Get(init_config, "payload_type", None) = "gtag"
  /\ "measurement_id" \notin DOMAIN init_config
  /\ Get(init_config, "firebase_app_id", None) = "1:2:android:3"

\* C20: within one send_data call the production POST for event i is issued
\* only after the sandbox validation of i returned success, and only after
\* all N sandbox validations have completed; an event that failed validation
\* is never sent, and no event causes more than two network calls (one
\* sandbox POST, at most one production POST).
C20_ValidateAllThenSend ==
  /\ \A p \in ProductionPosts :
       /\ calls[p].index \in PassedValidation
       /\ \A k \in Batch :
            \E q \in 1..(p - 1) :
              calls[q].url = "validate_url" /\ calls[q].index = k
       /\ Len(validated) = Len(input_data)
  /\ \A k \in Batch :
       /\ Cardinality(CallsFor("validate_url", k)) <= 1
       /\ Cardinality(CallsFor("post_url", k)) <= 1
       /\ Cardinality({ c \in 1..Len(calls) : calls[c].index = k }) <= 2
  /\ \A c \in 1..Len(calls) : calls[c].index \in Batch

\* Two events were sent after a third failed validation.
C20_Witness ==
  /\ Returned
  /\ Cardinality(ProductionPosts) = 2
  /\ Len(input_data) = 3
  /\ validated[2].exc # "none"

\* The sum of f over the entries of a sequence.
RECURSIVE SumOf(_, _)
SumOf(rs, field) ==
  IF rs = << >> THEN 0 ELSE rs[1][field] + SumOf(Tail(rs), field)

\* The error messages of the entries of a sequence, one after the other.
RECURSIVE MessagesOf(_)
MessagesOf(rs) ==
  IF rs = << >> THEN << >> ELSE rs[1].error_messages \o MessagesOf(Tail(rs))

\* C18: combining RunResults with + adds successful_hits and failed_hits
\* (associative and commutative on the counts), ORs dry_run and concatenates
\* error_messages left then right (associative): the combination of any
\* sequence has the sums of the operands' counts and dry_run true iff any
\* operand's is.
C18_SumOfRunResults ==
  operands # << >> =>
    /\ total.successful_hits = SumOf(operands, "successful_hits")
    /\ total.failed_hits = SumOf(operands, "failed_hits")
    /\ total.dry_run = (\E k \in 1..Len(operands) : operands[k].dry_run)
    /\ total.error_messages = MessagesOf(operands)
    /\ right_total = total
    /\ reversed.successful_hits = total.successful_hits
    /\ reversed.failed_hits = total.failed_hits
    /\ reversed.dry_run = total.dry_run

\* Three RunResults, the dry run one in the middle, with messages that the
\* reverse order lists differently.
C18_Witness ==
  /\ Len(operands) = 3
  /\ ~operands[1].dry_run /\ operands[2].dry_run /\ ~operands[3].dry_run
  /\ total.dry_run
  /\ total.failed_hits = 3
  /\ reversed.error_messages # total.error_messages


\* The status codes of a sequence of responses.
StatusCodes(responses) ==
  [k \in 1..Len(responses) |-> responses[k].status_code]

\* C13: for every sequence of server answers, _get_request issues at most
\* 1 + max_retries GETs and sleeps at most max_retries times, and until it
\* has returned or raised its next step is the end of the awaited GET or of
\* the sleep: nothing else bounds or prolongs its waiting.
C13_RetryBudgetBoundsGets ==
  client_pc # "idle" =>
    /\ gets <= 1 + max_retries
    /\ Len(sleeps) <= max_retries
    /\ Len(received) <= gets
    /\ client_pc \in {"returned", "raised"} \/ ENABLED (GetResponds \/ SleepEnds)

\* A server that answered not-ready to every GET of a call with the largest
\* retry budget.
C13_Witness ==
  /\ task = "_get_request"
  /\ client_pc = "returned"
  /\ max_retries = MaxRetries
  /\ gets = 1 + max_retries
  /\ \A k \in 1..Len(received) : received[k].status_code \in status_forcelist

\* C14: _get_request returns the last response it received, whose status is
\* outside status_forcelist or else follows exactly max_retries retries; a
\* retry only follows a response whose status is in status_forcelist; the
\* call raises only when a GET ended without a response.
C14_ReturnsLastResponse ==
  /\ client_pc = "returned" =>
       /\ Len(received) = gets
       /\ client_response = received[Len(received)]
       /\ \/ client_response.status_code \notin status_forcelist
          \/ gets - 1 = max_retries
  /\ client_pc # "idle" =>
       \A k \in 1..(gets - 1) : received[k].status_code \in status_forcelist
  /\ client_pc = "raised" =>
       /\ client_escaped = TransportError.kind
       /\ Len(received) = gets - 1

\* The budget of two retries is used up on 404 then 503 answers and the last
\* 503 answer is returned.
C14_Witness ==
  /\ task = "_get_request"
  /\ client_pc = "returned"
  /\ max_retries = 2
  /\ StatusCodes(received) = << 404, 404, 503 >>
  /\ client_response.status_code = 503

\* The call of Scenario D: status_forcelist {404}, max_retries 3, backoff 1
\* and a server answering 404 three times, then 200.
ScenarioD ==
  /\ task = "_get_request"
  /\ status_forcelist = {404}
  /\ max_retries = 3
  /\ backoff_in_seconds = 1
  /\ StatusCodes(received) = << 404, 404, 404, 200 >>

\* C15: exactly one sleep precedes each retry (the sleeps begun are the GETs
\* issued minus one, plus the sleep in progress), the k-th sleep (from 0)
\* lasts backoff_in_seconds * 2^k plus a jitter between 0 and 1 (10 tenths),
\* and in Scenario D the call has slept 3 times with bases 1, 2, 4 and
\* returned the 200 response.
C15_OneSleepPerRetry ==
  client_pc # "idle" =>
    /\ Len(sleeps) = (gets - 1) + (IF client_pc = "sleep" THEN 1 ELSE 0)
    /\ \A k \in 1..Len(sleeps) :
         /\ sleeps[k].base = backoff_in_seconds * 2^(k - 1)
         /\ sleeps[k].jitter \in 0..10
    /\ ScenarioD =>
         /\ client_pc = "returned"
         /\ [k \in 1..Len(sleeps) |-> sleeps[k].base] = << 1, 2, 4 >>
         /\ gets = 4
         /\ client_response.status_code = 200

\* Scenario D has run, with the largest jitter on the last sleep.
C15_Witness ==
  /\ ScenarioD
  /\ client_pc = "returned"
  /\ sleeps[3].jitter = 10

\* C16: while _get_request waits between two retries, another task of the
\* same event loop that has steps left can take one.
C16_SleepSuspendsOnlyCaller ==
  (client_pc = "sleep" /\ other_steps < MaxOtherSteps) => ENABLED OtherTask

\* An xcom response whose artifact is absent or unparseable.
Unparseable(artifact) ==
  \/ ~artifact.body.json
  \/ Get(artifact.body.value, "value", Null) \in
       { Null, EmptyStr, Unterminated, BareName }

\* C17: in list_dag_runs a run whose artifact is absent or unparseable gets
\* a log with an empty RunResult, and no error of parsing an artifact leaves
\* list_dag_runs.
C17_UnparseableArtifactIsEmptyResult ==
  task = "list_dag_runs" =>
    /\ client_escaped \notin {"JSONDecodeError", "SyntaxError", "ValueError"}
    /\ \A k \in 1..Len(artifacts) :
         Unparseable(artifacts[k]) =>
           /\ k <= Len(run_logs)
           /\ run_logs[k] = RunResult(0, 0, << >>, FALSE)


CountOf(log, method) == Cardinality({ k \in 1..Len(log) : log[k] = method })

\* C22: list_dag_runs fetches each run's artifact with an empty
\* status_forcelist: it issues one POST, each fetch issues one GET and never
\* sleeps whatever the status of the answer, and unless a request got no
\* answer a call that is over has issued exactly one GET for each of the
\* listing's runs.
C22_OneGetPerRun ==
  task = "list_dag_runs" =>
    /\ CountOf(http_log, "POST") = 1
    /\ sleeps = << >>
    /\ client_pc # "sleep"
    /\ client_pc # "idle" => status_forcelist = {} /\ gets = 1
    /\ CountOf(http_log, "GET") <= runs
    /\ (list_pc \in {"done", "raised"} /\ client_escaped # TransportError.kind)
         => CountOf(http_log, "GET") = runs


\* The events whose validation ended in a caught error.
FailedValidation ==
  { k \in Batch : k < Len(validated) /\ validated[k + 1].exc # "none" }

\* C23: no original index is twice in the invalid list: an event that failed
\* validation is never sent, so its index is there once, and a send failure
\* adds the index of a valid event once. Hence the RunResult send_data
\* returns has failed_hits <= N and as many error messages as failed hits.
C23_IndexAtMostOnceInInvalid ==
  /\ pc \in {"validate", "send", "done"} =>
       /\ \A k \in Batch : Occurrences(invalid_indices_and_errors, k) <= 1
       /\ \A k \in 1..Len(posted) : posted[k][1] \notin FailedValidation
       /\ Len(invalid_indices_and_errors) <= Len(input_data)
  /\ Returned =>
       /\ run_result.failed_hits <= Len(input_data)
       /\ Len(run_result.error_messages) = run_result.failed_hits
       /\ run_result.failed_hits =
            Cardinality(Indices(invalid_indices_and_errors))

\* A returned batch of three: one event failed validation, one failed to
\* send and one was sent.
C23_Witness ==
  /\ Returned
  /\ Len(input_data) = 3
  /\ Cardinality(FailedValidation) = 1
  /\ Cardinality(FailedSend) = 1
  /\ run_result.failed_hits = 2


\* C24: _validate_target issues the trigger's single POST before any GET and
\* then polls with status_forcelist {404} and at most 3 retries; once the
\* poll has returned a response whose status is not 200, the 404 left when
\* the retries are used up included, the call returns the ValidationResult
\* with is_valid false whatever the body and raises nothing.
C24_UnavailableTargetIsInvalid ==
  task = "_validate_target" =>
    /\ http_log[1] = "POST"
    /\ CountOf(http_log, "POST") = 1
    /\ validate_pc = "trigger" => CountOf(http_log, "GET") = 0
    /\ client_pc # "idle" =>
         /\ status_forcelist = {404}
         /\ max_retries = 3
         /\ CountOf(http_log, "GET") = gets
         /\ gets <= 4
    /\ (/\ validate_pc \in {"done", "raised"}
        /\ client_pc = "returned"
        /\ client_response.status_code # 200) =>
         /\ validate_pc = "done"
         /\ target_result.is_valid = FALSE
         /\ target_result = TargetUnavailable
         /\ client_escaped = "none"
         /\ client_response.status_code = 404 => gets = 4

\* The artifact was still 404 after the three retries, the last answer with
\* a body that is not JSON: the target is unavailable.
C24_Witness ==
  /\ task = "_validate_target"
  /\ validate_pc = "done"
  /\ target_result = TargetUnavailable
  /\ StatusCodes(received) = << 404, 404, 404, 404 >>
  /\ Len(sleeps) = 3
  /\ ~client_response.body.json

====
